---- MODULE Spec2Model ----
(***************************************************************************)
(* Model of equicast_awsutils: the two cost estimators                     *)
(* (equicast_awsutils/cost/s3.py, equicast_awsutils/cost/code_artifact.py) *)
(* and the SDK wrappers (equicast_awsutils/s3.py, code_artifact.py,        *)
(* ssm.py).                                                                *)
(*                                                                         *)
(* Numbers.  Python floats are modelled by exact fixed-point integers:     *)
(*   - capacities (total_gb, tier limits, st_size) are whole gigabytes, so *)
(*     st_size / 1024**3 is the change of unit from bytes to GB;           *)
(*   - money (total_cost, threshold) is in thousandths of a dollar, so the *)
(*     rates 0.023, 0.022, 0.021 and 0.05 per GB are 23, 22, 21 and 50;    *)
(*   - threshold * 0.5 is exact in binary floating point, and              *)
(*     cost < threshold * 0.5 is modelled as 2 * cost < threshold.         *)
(* Optional values are sequences of length at most one: None is <<>>.      *)
(***************************************************************************)
EXTENDS Integers, Sequences, FiniteSets, TLC

VARIABLES
    self,             \* the estimator instance: its dataclass fields
    env,              \* os.environ: GITHUB_OUTPUT and GITHUB_STEP_SUMMARY
    gh_output_file,   \* the file GITHUB_OUTPUT names
    gh_summary_file,  \* the file GITHUB_STEP_SUMMARY names
    pc,               \* the step calculate() is at, "idle" between calls
    trace,            \* what the current or last calculate() did, in order
    ret,              \* how the last calculate() ended
    calls,            \* number of calculate() calls so far
    before,           \* the sink files and the instance as calculate() was called
    twin,             \* the same call on a fresh instance with the same inputs
    loop,             \* locals of the pricing loop of S3._calculate_cost
    priced,           \* capacity and cost of the pricing completed before
    op,               \* the wrapper method in progress: arguments, locals, position
    remote,           \* the SDK client calls of that method, in order, with outcomes
    stdout,           \* what that method has printed
    result            \* how the last wrapper method ended

\* the state of the SDK wrappers
wvars == <<op, remote, stdout, result>>

vars == <<self, env, gh_output_file, gh_summary_file, pc, trace, ret, calls, before, twin,
          loop, priced, op, remote, stdout, result>>

(***************************************************************************)
(* Bounds                                                                  *)
(***************************************************************************)
MaxCalls == 2

\* the longest list handed to, or answered by, a wrapper method
MaxEntries == 2

(***************************************************************************)
(* Python values                                                           *)
(***************************************************************************)
None == <<>>

\* no wrapper method is in progress
NoOp == [name |-> "none", at |-> "idle"]

\* no wrapper method has ended yet
NoResult == [kind |-> "none"]

\* the wrappers are not in use
AwsIdle == op = NoOp /\ remote = <<>> /\ stdout = <<>> /\ result = NoResult

Some(x) == <<x>>

Min(a, b) == IF a <= b THEN a ELSE b

\* float('inf'): the largest number there is; inf - x is inf
Inf == 2147483647

Sub(a, b) == IF a = Inf THEN Inf ELSE a - b

\* bool(x) of an optional string: None and "" are false
TruthyStr(o) == o # None /\ o[1] # ""

\* bool(x) of an optional list: None and [] are false
TruthyList(o) == o # None /\ Len(o[1]) > 0

\* str(x) of an optional string, as an f-string renders it
Str(o) == IF o = None THEN "None" ELSE o[1]

Pad3(n) == IF n < 10 THEN "00" \o ToString(n)
           ELSE IF n < 100 THEN "0" \o ToString(n) ELSE ToString(n)

\* f"{gb:.6f}" of a whole number of gigabytes
FmtGb(gb) == ToString(gb) \o ".000000"

\* f"{cost:.6f}" of a cost in thousandths of a dollar
FmtCost(c) == ToString(c \div 1000) \o "." \o Pad3(c % 1000) \o "000"

(***************************************************************************)
(* The file system the estimators read                                     *)
(***************************************************************************)
Paths == {"d", "d/a", "d/sub", "d/sub/b", "x", "gone"}

Kind == [p \in Paths |->
           CASE p \in {"d", "d/sub"} -> "dir"
             [] p \in {"d/a", "d/sub/b", "x"} -> "file"
             [] OTHER -> "absent"]

\* st_size, in GB
StSize == [p \in Paths |->
             CASE p = "d/a" -> 1
               [] p = "d/sub/b" -> 51200
               [] p = "x" -> 460800
               [] OTHER -> 0]

\* Path.exists()
Exists(p) == Kind[p] # "absent"

\* Path.rglob("*"): every entry below p, directories included
Rglob(p) == IF p = "d" THEN <<[p |-> "d/a", t |-> "Path"],
                              [p |-> "d/sub", t |-> "Path"],
                              [p |-> "d/sub/b", t |-> "Path"]>>
            ELSE IF p = "d/sub" THEN <<[p |-> "d/sub/b", t |-> "Path"]>>
            ELSE <<>>

\* Path.is_file()
IsFile(f) == Kind[f.p] = "file"

(***************************************************************************)
(* Pricing tables                                                          *)
(***************************************************************************)
\* S3._pricing
Pricing == [st \in {"STANDARD"} |-> <<<<50 * 1024, 23>>, <<500 * 1024, 22>>, <<Inf, 21>>>>]

\* CodeArtifact._pricing_per_gb
PricingPerGb == 50

(***************************************************************************)
(* One calculate() run is a record m: the instance, the two sink files,    *)
(* the trace, and the exception raised so far ("" when none).              *)
(***************************************************************************)
NoFile == [exists |-> FALSE, lines |-> <<>>]

Raise(m, e) == [m EXCEPT !.exc = e]

Raised(m) == m.exc # ""

Step(m, name) == [m EXCEPT !.trace = Append(m.trace, <<name>>)]

\* _validate_region
ValidateRegion(m) ==
    LET m1 == Step(m, "validate_region")
    IN IF m1.self.region # "eu-west-1" THEN Raise(m1, "ValueError") ELSE m1

\* S3._validate_storage_type
ValidateStorageType(m) ==
    LET m1 == Step(m, "validate_storage_type")
    IN IF m1.self.storage_type \notin DOMAIN Pricing THEN Raise(m1, "ValueError") ELSE m1

RECURSIVE FirstStr(_, _)
\* index of the first entry of fs, from k on, that is a str and not a Path; 0 if none
FirstStr(fs, k) == IF k > Len(fs) THEN 0
                   ELSE IF fs[k].t = "str" THEN k ELSE FirstStr(fs, k + 1)

IsFileCalls(fs) == [k \in 1..Len(fs) |-> <<"is_file", fs[k].p>>]

\* GatherFiles taking a missing folder for an empty one
GatherFilesSkipMissing(m) ==
    LET s == m.self
        m1 == Step(m, "gather_files")
        useFolder == TruthyStr(s.folder)
        t1 == IF useFolder THEN Append(m1.trace, <<"exists", s.folder[1]>>) ELSE m1.trace
        found == useFolder /\ Exists(s.folder[1])
        walked == IF found THEN Rglob(s.folder[1]) ELSE <<>>
        t2 == IF found THEN Append(t1, <<"rglob", s.folder[1]>>) ELSE t1
        all_files == walked \o (IF TruthyList(s.files) THEN s.files[1] ELSE <<>>)
        bad == FirstStr(all_files, 1)
    IN IF bad > 0
       THEN Raise([m1 EXCEPT !.trace = t2 \o IsFileCalls(SubSeq(all_files, 1, bad - 1))
                                         \o <<<<"getattr_is_file", all_files[bad].p>>>>],
                  "AttributeError")
       ELSE [m1 EXCEPT !.self.all_files = SelectSeq(all_files, IsFile),
                       !.trace = t2 \o IsFileCalls(all_files)]

\* GatherFiles merging duplicates: an explicit entry the walk has found is left out
GatherFilesDedup(m) ==
    LET s == m.self
        m1 == Step(m, "gather_files")
        useFolder == TruthyStr(s.folder)
        t1 == IF useFolder THEN Append(m1.trace, <<"exists", s.folder[1]>>) ELSE m1.trace
    IN IF useFolder /\ ~Exists(s.folder[1])
       THEN Raise([m1 EXCEPT !.trace = t1], "FileNotFoundError")
       ELSE LET walked == IF useFolder THEN Rglob(s.folder[1]) ELSE <<>>
                t2 == IF useFolder THEN Append(t1, <<"rglob", s.folder[1]>>) ELSE t1
                seen(f) == \E k \in 1..Len(walked) : walked[k].p = f.p
                listed == IF TruthyList(s.files) THEN s.files[1] ELSE <<>>
                all_files == walked \o SelectSeq(listed, LAMBDA f : ~seen(f))
                bad == FirstStr(all_files, 1)
            IN IF bad > 0
               THEN Raise([m1 EXCEPT !.trace = t2 \o IsFileCalls(SubSeq(all_files, 1, bad - 1))
                                                 \o <<<<"getattr_is_file", all_files[bad].p>>>>],
                          "AttributeError")
               ELSE [m1 EXCEPT !.self.all_files = SelectSeq(all_files, IsFile),
                               !.trace = t2 \o IsFileCalls(all_files)]

\* _gather_files
GatherFiles(m) ==
    LET s == m.self
        m1 == Step(m, "gather_files")
        useFolder == TruthyStr(s.folder)
        t1 == IF useFolder THEN Append(m1.trace, <<"exists", s.folder[1]>>) ELSE m1.trace
    IN IF useFolder /\ ~Exists(s.folder[1])
       THEN Raise([m1 EXCEPT !.trace = t1], "FileNotFoundError")
       ELSE LET walked == IF useFolder THEN Rglob(s.folder[1]) ELSE <<>>
                t2 == IF useFolder THEN Append(t1, <<"rglob", s.folder[1]>>) ELSE t1
                all_files == walked \o (IF TruthyList(s.files) THEN s.files[1] ELSE <<>>)
                bad == FirstStr(all_files, 1)
            IN IF bad > 0
               \* a str has no is_file(): the comprehension raises at that entry
               THEN Raise([m1 EXCEPT !.trace = t2 \o IsFileCalls(SubSeq(all_files, 1, bad - 1))
                                                 \o <<<<"getattr_is_file", all_files[bad].p>>>>],
                          "AttributeError")
               ELSE [m1 EXCEPT !.self.all_files = SelectSeq(all_files, IsFile),
                               !.trace = t2 \o IsFileCalls(all_files)]

RECURSIVE SumSizes(_)
SumSizes(fs) == IF fs = <<>> THEN 0 ELSE StSize[Head(fs).p] + SumSizes(Tail(fs))

\* CalculateTotalGb adding to the field instead of assigning it
CalculateTotalGbAccumulates(m) ==
    LET m1 == Step(m, "calculate_total_gb")
        fs == m1.self.all_files
    IN [m1 EXCEPT !.self.total_gb = m1.self.total_gb + SumSizes(fs),
                  !.trace = m1.trace \o [k \in 1..Len(fs) |-> <<"stat", fs[k].p>>]]

\* _calculate_total_gb
CalculateTotalGb(m) ==
    LET m1 == Step(m, "calculate_total_gb")
        fs == m1.self.all_files
    IN [m1 EXCEPT !.self.total_gb = SumSizes(fs),
                  !.trace = m1.trace \o [k \in 1..Len(fs) |-> <<"stat", fs[k].p>>]]

(***************************************************************************)
(* The pricing loop of S3._calculate_cost                                  *)
(***************************************************************************)
\* the locals before the first iteration
LoopEntry(total_gb) ==
    [total_gb |-> total_gb, remaining_gb |-> total_gb, total_cost |-> 0,
     previous_limit |-> 0, i |-> 1, brk |-> FALSE, billed |-> <<>>]

\* TierBody with the tier's span taken to be its limit: previous_limit forgotten
TierBodySpanIsLimit(st, tiers) ==
    LET tier_limit == tiers[st.i][1]
        price_per_gb == tiers[st.i][2]
        tier_gb == Min(st.remaining_gb, tier_limit)
    IN [st EXCEPT !.total_cost = st.total_cost + tier_gb * price_per_gb,
                  !.remaining_gb = st.remaining_gb - tier_gb,
                  !.previous_limit = tier_limit,
                  !.i = st.i + 1,
                  !.brk = (st.remaining_gb - tier_gb <= 0),
                  !.billed = Append(st.billed, tier_gb)]

\* TierBody pricing by volume: the whole capacity at the rate of the tier it ends in
TierBodyVolume(st, tiers) ==
    LET tier_limit == tiers[st.i][1]
        price_per_gb == tiers[st.i][2]
        here == st.total_gb <= tier_limit
        tier_gb == IF here THEN st.total_gb ELSE 0
    IN [st EXCEPT !.total_cost = st.total_cost + tier_gb * price_per_gb,
                  !.remaining_gb = IF here THEN 0 ELSE st.remaining_gb,
                  !.previous_limit = tier_limit,
                  !.i = st.i + 1,
                  !.brk = here,
                  !.billed = Append(st.billed, tier_gb)]

\* TierBody without the early exit: the loop runs on through the table
TierBodyNoBreak(st, tiers) ==
    LET tier_limit == tiers[st.i][1]
        price_per_gb == tiers[st.i][2]
        tier_gb == Min(st.remaining_gb, Sub(tier_limit, st.previous_limit))
    IN [st EXCEPT !.total_cost = st.total_cost + tier_gb * price_per_gb,
                  !.remaining_gb = st.remaining_gb - tier_gb,
                  !.previous_limit = tier_limit,
                  !.i = st.i + 1,
                  !.brk = FALSE,
                  !.billed = Append(st.billed, tier_gb)]

\* one iteration of the for loop, on tier st.i
TierBody(st, tiers) ==
    LET tier_limit == tiers[st.i][1]
        price_per_gb == tiers[st.i][2]
        tier_gb == Min(st.remaining_gb, Sub(tier_limit, st.previous_limit))
    IN [st EXCEPT !.total_cost = st.total_cost + tier_gb * price_per_gb,
                  !.remaining_gb = st.remaining_gb - tier_gb,
                  !.previous_limit = tier_limit,
                  !.i = st.i + 1,
                  !.brk = (st.remaining_gb - tier_gb <= 0),
                  !.billed = Append(st.billed, tier_gb)]

\* the for loop has ended: by break, or with the table exhausted
LoopDone(st, tiers) == st.brk \/ st.i > Len(tiers)

RECURSIVE RunLoop(_, _)
RunLoop(st, tiers) == IF LoopDone(st, tiers) THEN st ELSE RunLoop(TierBody(st, tiers), tiers)

\* S3._calculate_cost
S3CalculateCost(m) ==
    LET m1 == Step(m, "calculate_cost")
        st == RunLoop(LoopEntry(m1.self.total_gb), Pricing[m1.self.storage_type])
    IN [m1 EXCEPT !.self.total_cost = st.total_cost]

\* CodeArtifact._calculate_cost
CodeArtifactCalculateCost(m) ==
    LET m1 == Step(m, "calculate_cost")
    IN [m1 EXCEPT !.self.total_cost = m1.self.total_gb * PricingPerGb]

\* ColorOf with the band limits on the wrong side: <= for <
ColorOfInclusive(total_cost, threshold) ==
    IF threshold = None THEN None
    ELSE IF 2 * total_cost <= threshold[1] THEN Some("green")
    ELSE IF total_cost <= threshold[1] THEN Some("yellow")
    ELSE Some("red")

\* _determine_color_code, the same in both classes
ColorOf(total_cost, threshold) ==
    IF threshold = None THEN None
    ELSE IF 2 * total_cost < threshold[1] THEN Some("green")
    ELSE IF total_cost < threshold[1] THEN Some("yellow")
    ELSE Some("red")

DetermineColorCode(m) ==
    LET m1 == Step(m, "determine_color_code")
    IN [m1 EXCEPT !.self.color_code = ColorOf(m1.self.total_cost, m1.self.threshold)]

(***************************************************************************)
(* The two report sinks                                                    *)
(***************************************************************************)
\* AppendTo opening with mode "w": what the file held is lost
AppendToTruncating(file, lines) == [exists |-> TRUE, lines |-> lines]

\* open(path, "a") followed by the writes: creates the file, keeps what it holds
AppendTo(file, lines) == [exists |-> TRUE, lines |-> file.lines \o lines]

\* the three lines _write_github_output writes
OutputLines(s) ==
    <<"total_gb=" \o FmtGb(s.total_gb),
      "estimate_cost=" \o FmtCost(s.total_cost),
      "color_code=" \o Str(s.color_code)>>

\* the resource label of the class, in the heading and in the data row
Label(cls) == IF cls = "S3" THEN "S3" ELSE "CodeArtifact"

\* the four lines _write_github_summary writes (the heading's emoji is left out)
SummaryLines(s) ==
    <<"### " \o Label(s.cls) \o " Cost Estimate",
      "| Resource | Storage Size (GB) | Estimated Monthly Cost |",
      "|----------|-------------------|------------------------|",
      "| " \o Label(s.cls) \o " | " \o FmtGb(s.total_gb) \o " | "
           \o "<span style='color:" \o Str(s.color_code) \o "'>$"
           \o FmtCost(s.total_cost) \o "</span> |">>

\* _write_github_output
WriteGithubOutput(m) ==
    LET m1 == Step(m, "write_github_output")
    IN IF m1.self.github_output
       THEN LET m2 == [m1 EXCEPT !.trace = Append(m1.trace, <<"environ.get", "GITHUB_OUTPUT">>)]
            IN IF TruthyStr(env.GITHUB_OUTPUT)
               THEN [m2 EXCEPT !.out = AppendTo(m2.out, OutputLines(m2.self)),
                               !.trace = Append(m2.trace, <<"open", env.GITHUB_OUTPUT[1]>>)]
               ELSE m2
       ELSE m1

\* WriteGithubSummary guarded by the other sink's flag
WriteGithubSummaryOtherFlag(m) ==
    LET m1 == Step(m, "write_github_summary")
    IN IF m1.self.github_output
       THEN LET m2 == [m1 EXCEPT !.trace = Append(m1.trace, <<"environ.get", "GITHUB_STEP_SUMMARY">>)]
            IN IF TruthyStr(env.GITHUB_STEP_SUMMARY)
               THEN [m2 EXCEPT !.summ = AppendTo(m2.summ, SummaryLines(m2.self)),
                               !.trace = Append(m2.trace, <<"open", env.GITHUB_STEP_SUMMARY[1]>>)]
               ELSE m2
       ELSE m1

\* _write_github_summary
WriteGithubSummary(m) ==
    LET m1 == Step(m, "write_github_summary")
    IN IF m1.self.github_summary
       THEN LET m2 == [m1 EXCEPT !.trace = Append(m1.trace, <<"environ.get", "GITHUB_STEP_SUMMARY">>)]
            IN IF TruthyStr(env.GITHUB_STEP_SUMMARY)
               THEN [m2 EXCEPT !.summ = AppendTo(m2.summ, SummaryLines(m2.self)),
                               !.trace = Append(m2.trace, <<"open", env.GITHUB_STEP_SUMMARY[1]>>)]
               ELSE m2
       ELSE m1

(***************************************************************************)
(* calculate(): the steps in order; an exception ends the run              *)
(***************************************************************************)
\* S3.calculate with the validations after the collection
S3CalculateValidateLate ==
    <<"gather_files", "validate_region", "validate_storage_type", "calculate_total_gb",
      "calculate_cost", "determine_color_code", "write_github_output",
      "write_github_summary", "return">>

\* S3.calculate with the sinks written before the pricing and the classification
S3CalculateWriteEarly ==
    <<"validate_region", "validate_storage_type", "gather_files", "calculate_total_gb",
      "write_github_output", "write_github_summary", "calculate_cost",
      "determine_color_code", "return">>

\* S3.calculate
S3Calculate ==
    <<"validate_region", "validate_storage_type", "gather_files", "calculate_total_gb",
      "calculate_cost", "determine_color_code", "write_github_output",
      "write_github_summary", "return">>

\* CodeArtifact.calculate
CodeArtifactCalculate ==
    <<"validate_region", "gather_files", "calculate_total_gb",
      "calculate_cost", "determine_color_code", "write_github_output",
      "write_github_summary", "return">>

StepsOf(cls) == IF cls = "S3" THEN S3Calculate ELSE CodeArtifactCalculate

\* the step after `step` in calculate()
After(cls, step) ==
    LET steps == StepsOf(cls)
        k == CHOOSE j \in 1..Len(steps) : steps[j] = step
    IN steps[k + 1]

\* what calculate() hands to its caller: the returned dict, or the exception
Outcome(m) ==
    IF Raised(m) THEN [kind |-> "raise", exc |-> m.exc, value |-> None]
    ELSE [kind |-> "return", exc |-> "",
          value |-> Some([total_gb |-> m.self.total_gb, total_cost |-> m.self.total_cost,
                          color_code |-> m.self.color_code])]

(***************************************************************************)
(* Construction                                                            *)
(***************************************************************************)
\* the dataclass constructor: the init=False fields take their defaults
NewInstance(cls, region, storage_type, folder, files, threshold, github_summary, github_output) ==
    [region |-> region, storage_type |-> storage_type, folder |-> folder,
     all_files |-> <<>>, files |-> files, total_gb |-> 0, total_cost |-> 0,
     threshold |-> threshold, color_code |-> None, cls |-> cls,
     github_output |-> github_output, github_summary |-> github_summary]

\* a fresh instance with the inputs of s
Fresh(s) == NewInstance(s.cls, s.region, s.storage_type, s.folder, s.files, s.threshold,
                        s.github_summary, s.github_output)

(***************************************************************************)
(* Inputs                                                                  *)
(***************************************************************************)
P(p) == [p |-> p, t |-> "Path"]

S(p) == [p |-> p, t |-> "str"]

Classes == {"S3", "CodeArtifact"}

Regions == {"eu-west-1", "us-east-1"}

\* CodeArtifact has no storage_type field: "-" stands for its absence
StorageTypes(cls) == IF cls = "S3" THEN {"STANDARD", "GLACIER"} ELSE {"-"}

Folders == {None, Some("d"), Some("gone")}

FileLists == {None, Some(<<>>), Some(<<P("d/a")>>), Some(<<P("gone"), P("x")>>),
              Some(<<P("d"), P("d/a")>>), Some(<<S("d/a")>>), Some(<<P("x"), S("gone")>>)}

\* thresholds, in thousandths of a dollar: 0.1 is the tests' threshold
Thresholds == {None, Some(100)}

\* os.environ.get(name): None when unset, else the value, which may be empty
Envs == [GITHUB_OUTPUT : {None, Some(""), Some("github_output.txt")},
         GITHUB_STEP_SUMMARY : {None, Some(""), Some("github_summary.md")}]

NoEnv == [GITHUB_OUTPUT |-> None, GITHUB_STEP_SUMMARY |-> None]

Instances ==
    {NewInstance(c, r, st, fo, fi, th, gs, go) :
        c \in Classes, r \in Regions, st \in {"STANDARD", "GLACIER", "-"},
        fo \in Folders, fi \in FileLists, th \in Thresholds,
        gs \in BOOLEAN, go \in BOOLEAN}

NotCalled == [kind |-> "none", exc |-> "", value |-> None]

\* a sink file an earlier step of the pipeline has written to
Earlier == [exists |-> TRUE, lines |-> <<"earlier=1">>]

\* a run that has not started
NoRun(s) == [self |-> s, trace |-> <<>>, exc |-> "", out |-> NoFile, summ |-> NoFile]

(***************************************************************************)
(* The estimator in use: calculate() calls on one instance                 *)
(***************************************************************************)
Init ==
    /\ self \in {i \in Instances : i.storage_type \in StorageTypes(i.cls)}
    /\ env \in Envs
    /\ \E f \in {NoFile, Earlier} : gh_output_file = f /\ gh_summary_file = f
    /\ pc = "idle"
    /\ trace = <<>>
    /\ ret = NotCalled
    /\ calls = 0
    /\ before = [self |-> self, out |-> gh_output_file, summ |-> gh_summary_file]
    /\ twin = NoRun(Fresh(self))
    /\ loop = LoopEntry(0)
    /\ priced = None
    /\ AwsIdle

\* the run in progress
Run == [self |-> self, trace |-> trace, exc |-> "",
        out |-> gh_output_file, summ |-> gh_summary_file]

\* the caller calls calculate()
Call ==
    /\ pc = "idle"
    /\ calls < MaxCalls
    /\ calls' = calls + 1
    /\ pc' = StepsOf(self.cls)[1]
    /\ trace' = <<>>
    /\ ret' = NotCalled
    /\ before' = [self |-> self, out |-> gh_output_file, summ |-> gh_summary_file]
    /\ twin' = [self |-> Fresh(self), trace |-> <<>>, exc |-> "",
                out |-> gh_output_file, summ |-> gh_summary_file]
    /\ UNCHANGED <<self, env, gh_output_file, gh_summary_file, loop, priced, wvars>>

\* the run has become n (and its twin tn): go on, or raise to the caller
Advance(n, tn) ==
    /\ self' = n.self
    /\ gh_output_file' = n.out
    /\ gh_summary_file' = n.summ
    /\ trace' = n.trace
    /\ twin' = tn
    /\ IF Raised(n) THEN pc' = "idle" /\ ret' = Outcome(n)
                    ELSE pc' = After(self.cls, pc) /\ ret' = ret
    /\ UNCHANGED <<env, calls, before, loop, priced, wvars>>

DoValidateRegion ==
    /\ pc = "validate_region"
    /\ \E n \in {ValidateRegion(Run)},
          tn \in {IF Raised(twin) THEN twin ELSE ValidateRegion(twin)} : Advance(n, tn)

DoValidateStorageType ==
    /\ pc = "validate_storage_type"
    /\ \E n \in {ValidateStorageType(Run)},
          tn \in {IF Raised(twin) THEN twin ELSE ValidateStorageType(twin)} : Advance(n, tn)

DoGatherFiles ==
    /\ pc = "gather_files"
    /\ \E n \in {GatherFiles(Run)},
          tn \in {IF Raised(twin) THEN twin ELSE GatherFiles(twin)} : Advance(n, tn)

DoCalculateTotalGb ==
    /\ pc = "calculate_total_gb"
    /\ \E n \in {CalculateTotalGb(Run)},
          tn \in {IF Raised(twin) THEN twin ELSE CalculateTotalGb(twin)} : Advance(n, tn)

\* _calculate_cost of the instance's class
CalculateCost(m) ==
    IF m.self.cls = "S3" THEN S3CalculateCost(m) ELSE CodeArtifactCalculateCost(m)

DoCalculateCost ==
    /\ pc = "calculate_cost"
    /\ \E n \in {CalculateCost(Run)},
          tn \in {IF Raised(twin) THEN twin ELSE CalculateCost(twin)} : Advance(n, tn)

DoDetermineColorCode ==
    /\ pc = "determine_color_code"
    /\ \E n \in {DetermineColorCode(Run)},
          tn \in {IF Raised(twin) THEN twin ELSE DetermineColorCode(twin)} : Advance(n, tn)

DoWriteGithubOutput ==
    /\ pc = "write_github_output"
    /\ \E n \in {WriteGithubOutput(Run)},
          tn \in {IF Raised(twin) THEN twin ELSE WriteGithubOutput(twin)} : Advance(n, tn)

DoWriteGithubSummary ==
    /\ pc = "write_github_summary"
    /\ \E n \in {WriteGithubSummary(Run)},
          tn \in {IF Raised(twin) THEN twin ELSE WriteGithubSummary(twin)} : Advance(n, tn)

\* the return statement
Return ==
    /\ pc = "return"
    /\ pc' = "idle"
    /\ ret' = Outcome(Run)
    /\ UNCHANGED <<self, env, gh_output_file, gh_summary_file, trace, calls, before, twin,
                   loop, priced, wvars>>

Calculate ==
    \/ Call
    \/ DoValidateRegion
    \/ DoValidateStorageType
    \/ DoGatherFiles
    \/ DoCalculateTotalGb
    \/ DoCalculateCost
    \/ DoDetermineColorCode
    \/ DoWriteGithubOutput
    \/ DoWriteGithubSummary
    \/ Return

\* an assignment to an input field between calls; the last outcome is forgotten
Reassigned(s) ==
    /\ pc = "idle"
    /\ self' = s
    /\ trace' = <<>>
    /\ ret' = NotCalled
    /\ twin' = NoRun(Fresh(s))
    /\ UNCHANGED <<env, gh_output_file, gh_summary_file, pc, calls, before, loop, priced, wvars>>

SetThreshold == \E v \in Thresholds : v # self.threshold /\ Reassigned([self EXCEPT !.threshold = v])

Next == Calculate \/ SetThreshold

Spec == Init /\ [][Next]_vars

(***************************************************************************)
(* Reuse: one instance whose input fields the caller reassigns between     *)
(* calls.  The flags are off, so the sinks stay as they are.               *)
(***************************************************************************)
InitReuse ==
    /\ self \in {i \in Instances : /\ i.storage_type \in StorageTypes(i.cls)
                                   /\ ~i.github_summary /\ ~i.github_output}
    /\ env = NoEnv
    /\ gh_output_file = NoFile
    /\ gh_summary_file = NoFile
    /\ pc = "idle"
    /\ trace = <<>>
    /\ ret = NotCalled
    /\ calls = 0
    /\ before = [self |-> self, out |-> NoFile, summ |-> NoFile]
    /\ twin = NoRun(Fresh(self))
    /\ loop = LoopEntry(0)
    /\ priced = None
    /\ AwsIdle

SetFolder == \E v \in Folders : v # self.folder /\ Reassigned([self EXCEPT !.folder = v])

SetFiles == \E v \in FileLists : v # self.files /\ Reassigned([self EXCEPT !.files = v])

SetRegion == \E v \in Regions : v # self.region /\ Reassigned([self EXCEPT !.region = v])

SetStorageType ==
    \E v \in StorageTypes(self.cls) :
        v # self.storage_type /\ Reassigned([self EXCEPT !.storage_type = v])

NextReuse == Calculate \/ SetThreshold \/ SetFolder \/ SetFiles \/ SetRegion \/ SetStorageType

SpecReuse == InitReuse /\ [][NextReuse]_vars

(***************************************************************************)
(* The pricing loop on its own, one iteration at a time, over the          *)
(* capacities around the tier limits                                       *)
(***************************************************************************)
Capacities == {0, 1, 50 * 1024 - 1, 50 * 1024, 50 * 1024 + 1, 100 * 1024,
               500 * 1024 - 1, 500 * 1024, 500 * 1024 + 1, 600 * 1024}

InitCost ==
    /\ self = NewInstance("S3", "eu-west-1", "STANDARD", None, None, None, FALSE, FALSE)
    /\ env = NoEnv
    /\ gh_output_file = NoFile
    /\ gh_summary_file = NoFile
    /\ pc = "calculate_cost"
    /\ trace = <<>>
    /\ ret = NotCalled
    /\ calls = 0
    /\ before = [self |-> self, out |-> NoFile, summ |-> NoFile]
    /\ twin = NoRun(self)
    /\ \E c \in Capacities : loop = LoopEntry(c)
    /\ priced = None
    /\ AwsIdle

\* one iteration of the for loop
TierStep ==
    /\ ~LoopDone(loop, Pricing[self.storage_type])
    /\ loop' = TierBody(loop, Pricing[self.storage_type])
    /\ UNCHANGED <<self, env, gh_output_file, gh_summary_file, pc, trace, ret, calls,
                   before, twin, priced, wvars>>

\* the loop has ended: its cost is kept, and another capacity is priced
PriceAnother ==
    /\ LoopDone(loop, Pricing[self.storage_type])
    /\ priced' = Some([total_gb |-> loop.total_gb, total_cost |-> loop.total_cost])
    /\ \E c \in Capacities : loop' = LoopEntry(c)
    /\ UNCHANGED <<self, env, gh_output_file, gh_summary_file, pc, trace, ret, calls,
                   before, twin, wvars>>

NextCost == TierStep \/ PriceAnother

SpecCost == InitCost /\ [][NextCost]_vars

(***************************************************************************)
(* The classifier on its own, over costs and thresholds around the bands   *)
(***************************************************************************)
Costs == 0..6

ClassifierThresholds == {None} \cup {Some(t) : t \in {0, 1, 2, 3, 4, 5, 6, 12}}

InitClassify ==
    /\ \E c \in Classes, co \in Costs, th \in ClassifierThresholds :
          self = [NewInstance(c, "eu-west-1", IF c = "S3" THEN "STANDARD" ELSE "-",
                              None, None, th, FALSE, FALSE)
                    EXCEPT !.total_cost = co]
    /\ env = NoEnv
    /\ gh_output_file = NoFile
    /\ gh_summary_file = NoFile
    /\ pc = "determine_color_code"
    /\ trace = <<>>
    /\ ret = NotCalled
    /\ calls = 0
    /\ before = [self |-> self, out |-> NoFile, summ |-> NoFile]
    /\ twin = NoRun(self)
    /\ loop = LoopEntry(0)
    /\ priced = None
    /\ AwsIdle

\* _determine_color_code() on the instance
Classify ==
    /\ pc = "determine_color_code"
    /\ \E n \in {DetermineColorCode(Run)} : self' = n.self /\ trace' = n.trace
    /\ pc' = "idle"
    /\ UNCHANGED <<env, gh_output_file, gh_summary_file, ret, calls, before, twin,
                   loop, priced, wvars>>

NextClassify == Classify

SpecClassify == InitClassify /\ [][NextClassify]_vars

(***************************************************************************)
(* The SDK wrappers (equicast_awsutils/s3.py, code_artifact.py, ssm.py).   *)
(* A method runs one statement group at a time; every call on the SDK      *)
(* client is recorded in remote with the outcome the service gave it,      *)
(* which is "ok" or the exception the method's except clauses name.        *)
(* Dicts are functions from keys to values; strings that may be None are   *)
(* optional values.                                                        *)
(***************************************************************************)
\* d.get(k, default)
Get(d, k, default) == IF k \in DOMAIN d THEN d[k] ELSE default

\* bool(x) of a list
Truthy(list) == Len(list) > 0

\* one call on the SDK client
ClientCall(call, arg, outcome) == [call |-> call, arg |-> arg, outcome |-> outcome]

\* the method returns value
Returns(value) == [kind |-> "return", value |-> value]

\* the method raises to its caller
Raises(exc, names) == [kind |-> "raise", exc |-> exc, names |-> names]

\* a bool and a dict as return values
Bool(b) == [type |-> "bool", bool |-> b]

Dict(d) == [type |-> "dict", dict |-> d]

\* the wrapper method has ended with r
Finish(r) ==
    /\ result' = r
    /\ op' = [op EXCEPT !.at = "idle"]

\* a wrapper method is called.  The wrappers keep nothing from one call to the next but
\* the file GITHUB_OUTPUT names, so a run is one call (calls = 0 in the actions that
\* enter), on a file with or without earlier lines
Enter(o) ==
    /\ pc = "idle"
    /\ op.at = "idle"
    /\ calls' = calls + 1
    /\ op' = o
    /\ remote' = <<>>
    /\ stdout' = <<>>
    /\ result' = NoResult
    /\ before' = [self |-> self, out |-> gh_output_file, summ |-> gh_summary_file]
    /\ UNCHANGED <<self, env, gh_output_file, gh_summary_file, pc, trace, ret, twin,
                   loop, priced>>

\* the variables no wrapper method touches
Estimator == <<self, env, gh_summary_file, pc, trace, ret, calls, before, twin, loop, priced>>

(***************************************************************************)
(* S3.download_files                                                       *)
(***************************************************************************)
\* the keys the callers ask for and the bucket lists
Keys == {Some("file1.txt"), Some("file-does-not-exist.txt")}

\* an entry of files: {'key': ..., 'mandatory': ...}, mandatory being optional
DownloadEntries ==
    {[key |-> k] : k \in Keys} \cup {[key |-> k, mandatory |-> b] : k \in Keys, b \in BOOLEAN}

\* the lists of at most n elements of S
ListsOf(elems, n) == UNION {[1..k -> elems] : k \in 0..n}

\* the files argument
DownloadFiles == {None} \cup {Some(l) : l \in ListsOf(DownloadEntries, MaxEntries)}

\* a page of list_objects_v2: the Contents entry is absent from an empty page
Page(keys) ==
    IF keys = <<>> THEN [KeyCount |-> 0]
    ELSE [KeyCount |-> Len(keys), Contents |-> [k \in 1..Len(keys) |-> [Key |-> keys[k]]]]

\* what the paginator will yield: the pages of the bucket
Buckets ==
    {<<Page(<<>>)>>,
     <<Page(<<Some("file1.txt")>>)>>,
     <<Page(<<Some("file1.txt"), Some("file2.txt")>>)>>,
     <<Page(<<Some("file1.txt"), Some("file2.txt")>>), Page(<<Some("file3.txt")>>)>>}

\* S3._download_file: the return value for the outcome of client.download_file
DownloadFile(outcome) == outcome = "ok"

\* which way download_files goes after its first statements
DownloadFilesBranchFilesFirst(args) ==
    IF TruthyList(args.files) THEN "fetch"
    ELSE IF args.download_all THEN "paginate" ELSE "no_files"

DownloadFilesBranch(args) ==
    IF args.download_all THEN "paginate"
    ELSE IF ~TruthyList(args.files) THEN "no_files" ELSE "fetch"

\* download_files(local_dir, files, download_all) is called, on a bucket of some pages
CallDownloadFiles ==
    /\ calls = 0
    /\ \E files \in DownloadFiles, download_all \in BOOLEAN :
        \E bucket \in IF download_all THEN Buckets ELSE {<<>>} :
          Enter([name |-> "download_files", at |-> "start",
                 args |-> [files |-> files, download_all |-> download_all],
                 bucket |-> bucket, paginator |-> bucket, todo |-> <<>>,
                 downloaded_files |-> <<>>, missing_mandatory |-> <<>>])

\* the statements before the loops
DownloadFilesStart ==
    /\ op.name = "download_files" /\ op.at = "start"
    /\ \E b \in {DownloadFilesBranch(op.args)} :
          CASE b = "paginate" -> op' = [op EXCEPT !.at = "paginate"] /\ UNCHANGED <<stdout, result>>
            [] b = "no_files" ->
                  /\ stdout' = Append(stdout, <<"No files to download">>)
                  /\ Finish(Returns(Dict([missing_mandatory |-> <<>>, downloaded |-> <<>>])))
            [] b = "fetch" ->
                  /\ op' = [op EXCEPT !.at = "fetch", !.todo = op.args.files[1]]
                  /\ UNCHANGED <<stdout, result>>
    /\ UNCHANGED <<remote, gh_output_file, Estimator>>

\* the paginator yields its next page, or the listing fails and the error goes to the caller
DownloadFilesPaginate ==
    /\ op.name = "download_files" /\ op.at = "paginate"
    /\ op.paginator # <<>>
    /\ \E outcome \in {"ok", "ClientError"} :
          /\ remote' = Append(remote, ClientCall("list_objects_v2", None, outcome))
          /\ IF outcome = "ok"
             THEN /\ op' = [op EXCEPT !.at = "fetch_all", !.paginator = Tail(op.paginator),
                                      !.todo = Get(Head(op.paginator), "Contents", <<>>)]
                  /\ UNCHANGED result
             ELSE Finish(Raises("ClientError", <<>>))
    /\ UNCHANGED <<stdout, gh_output_file, Estimator>>

\* one iteration of the loop over a page's objects
DownloadFilesFetchListed ==
    /\ op.name = "download_files" /\ op.at = "fetch_all"
    /\ op.todo # <<>>
    /\ \E outcome \in {"ok", "ClientError"}, key \in {Head(op.todo).Key} :
          /\ remote' = Append(remote, ClientCall("download_file", key, outcome))
          /\ stdout' = IF outcome = "ok" THEN stdout
                       ELSE Append(stdout, <<"Download failed for", key>>)
          /\ op' = [op EXCEPT !.todo = Tail(op.todo),
                              !.downloaded_files =
                                  IF DownloadFile(outcome) THEN Append(@, key) ELSE @]
    /\ UNCHANGED <<result, gh_output_file, Estimator>>

\* the page is done: on to the next one
DownloadFilesNextPage ==
    /\ op.name = "download_files" /\ op.at = "fetch_all"
    /\ op.todo = <<>>
    /\ op' = [op EXCEPT !.at = "paginate"]
    /\ UNCHANGED <<remote, stdout, result, gh_output_file, Estimator>>

\* the return statement of the download_all branch
DownloadFilesReturnAll ==
    /\ op.name = "download_files" /\ op.at = "paginate"
    /\ op.paginator = <<>>
    /\ Finish(Returns(Dict([missing_mandatory |-> <<>>, downloaded |-> op.downloaded_files])))
    /\ UNCHANGED <<remote, stdout, gh_output_file, Estimator>>

\* the body of the loop over files, for the outcome of the entry's download
DownloadOneElse(o, file_info, outcome) ==
    LET key == Get(file_info, "key", None)
        mandatory == Get(file_info, "mandatory", FALSE)
    IN  IF DownloadFile(outcome)
        THEN [o EXCEPT !.todo = Tail(@), !.downloaded_files = Append(@, key)]
        ELSE [o EXCEPT !.todo = Tail(@), !.missing_mandatory = Append(@, key)]

DownloadOne(o, file_info, outcome) ==
    LET key == Get(file_info, "key", None)
        mandatory == Get(file_info, "mandatory", FALSE)
    IN  IF DownloadFile(outcome)
        THEN [o EXCEPT !.todo = Tail(@), !.downloaded_files = Append(@, key)]
        ELSE IF mandatory
             THEN [o EXCEPT !.todo = Tail(@), !.missing_mandatory = Append(@, key)]
             ELSE [o EXCEPT !.todo = Tail(@)]

\* one iteration of the loop over files
DownloadFilesFetch ==
    /\ op.name = "download_files" /\ op.at = "fetch"
    /\ op.todo # <<>>
    /\ \E outcome \in {"ok", "ClientError"}, key \in {Get(Head(op.todo), "key", None)} :
          /\ remote' = Append(remote, ClientCall("download_file", key, outcome))
          /\ stdout' = IF outcome = "ok" THEN stdout
                       ELSE Append(stdout, <<"Download failed for", key>>)
          /\ op' = DownloadOne(op, Head(op.todo), outcome)
    /\ UNCHANGED <<result, gh_output_file, Estimator>>

\* the statements after the loop over files
DownloadFilesDecide ==
    /\ op.name = "download_files" /\ op.at = "fetch"
    /\ op.todo = <<>>
    /\ IF Truthy(op.missing_mandatory)
       THEN Finish(Raises("FileNotFoundError", op.missing_mandatory))
       ELSE Finish(Returns(Dict([missing_mandatory |-> op.missing_mandatory,
                                 downloaded |-> op.downloaded_files])))
    /\ UNCHANGED <<remote, stdout, gh_output_file, Estimator>>

DownloadFilesCall ==
    \/ CallDownloadFiles
    \/ DownloadFilesStart
    \/ DownloadFilesPaginate
    \/ DownloadFilesFetchListed
    \/ DownloadFilesNextPage
    \/ DownloadFilesReturnAll
    \/ DownloadFilesFetch
    \/ DownloadFilesDecide

(***************************************************************************)
(* S3.upload_files                                                         *)
(***************************************************************************)
\* an entry of files: {'key': ..., 'path': ...}; an entry may lack either, or hold None or ""
UploadEntries ==
    {[key |-> Some("good.txt"), path |-> Some("/tmp/ok")],
     [key |-> Some("missing.txt"), path |-> Some("/does/not/exist")],
     [key |-> None, path |-> Some("/tmp/ok")],
     [path |-> Some("/tmp/ok")],
     [key |-> Some("good.txt")],
     [key |-> Some(""), path |-> Some("/tmp/ok")],
     [key |-> Some("good.txt"), path |-> Some("")]}

UploadFiles == ListsOf(UploadEntries, MaxEntries)

\* S3._upload_file: whether client.upload_file is called at all
UploadFileCalls(s3_key) == TruthyStr(s3_key)

\* S3._upload_file: the return value for the outcome of client.upload_file
UploadFile(s3_key, outcome) == UploadFileCalls(s3_key) /\ outcome = "ok"

\* the body of the loop over files, for the outcome of the entry's upload
UploadOneNoContinue(o, file_info, outcome) ==
    LET s3_key == Get(file_info, "key", None)
        file_path == Get(file_info, "path", None)
        entry == [key |-> s3_key, path |-> file_path]
        skipped == IF ~TruthyStr(s3_key) \/ ~TruthyStr(file_path)
                   THEN [o EXCEPT !.failed_files = Append(@, entry)]
                   ELSE o
    IN  IF UploadFile(s3_key, outcome)
        THEN [skipped EXCEPT !.todo = Tail(@), !.uploaded_files = Append(@, s3_key)]
        ELSE [skipped EXCEPT !.todo = Tail(@), !.failed_files = Append(@, entry)]

UploadOne(o, file_info, outcome) ==
    LET s3_key == Get(file_info, "key", None)
        file_path == Get(file_info, "path", None)
        entry == [key |-> s3_key, path |-> file_path]
    IN  IF ~TruthyStr(s3_key) \/ ~TruthyStr(file_path)
        THEN [o EXCEPT !.todo = Tail(@), !.failed_files = Append(@, entry)]
        ELSE IF UploadFile(s3_key, outcome)
             THEN [o EXCEPT !.todo = Tail(@), !.uploaded_files = Append(@, s3_key)]
             ELSE [o EXCEPT !.todo = Tail(@), !.failed_files = Append(@, entry)]

\* whether the loop body reaches client.upload_file for the entry
UploadOneTransfers(file_info) ==
    /\ TruthyStr(Get(file_info, "key", None))
    /\ TruthyStr(Get(file_info, "path", None))
    /\ UploadFileCalls(Get(file_info, "key", None))

\* upload_files(files) is called
CallUploadFiles ==
    /\ calls = 0
    /\ \E files \in UploadFiles :
          Enter([name |-> "upload_files", at |-> "upload", args |-> [files |-> files],
                 todo |-> files, failed_files |-> <<>>, uploaded_files |-> <<>>])

\* one iteration of the loop over files
UploadFilesUpload ==
    /\ op.name = "upload_files" /\ op.at = "upload"
    /\ op.todo # <<>>
    /\ \E file_info \in {Head(op.todo)} :
       \E outcome \in IF UploadOneTransfers(file_info)
                      THEN {"ok", "FileNotFoundError", "ClientError"} ELSE {"none"} :
          /\ remote' = IF UploadOneTransfers(file_info)
                       THEN Append(remote, ClientCall("upload_file", file_info.key, outcome))
                       ELSE remote
          /\ stdout' = IF outcome \in {"ok", "none"} THEN stdout
                       ELSE IF outcome = "FileNotFoundError"
                            THEN Append(stdout, <<"Upload failed for", file_info.path>>)
                            ELSE Append(stdout, <<"Upload failed for", file_info.key>>)
          /\ op' = UploadOne(op, file_info, outcome)
    /\ UNCHANGED <<result, gh_output_file, Estimator>>

\* the return statement
UploadFilesReturn ==
    /\ op.name = "upload_files" /\ op.at = "upload"
    /\ op.todo = <<>>
    /\ Finish(Returns(Dict([uploaded |-> op.uploaded_files, failed |-> op.failed_files])))
    /\ UNCHANGED <<remote, stdout, gh_output_file, Estimator>>

UploadFilesCall == CallUploadFiles \/ UploadFilesUpload \/ UploadFilesReturn

(***************************************************************************)
(* CodeArtifact: get_auth_token, get_endpoint, delete_package_versions.    *)
(* A package format is the sequence of its characters, so that             *)
(* str.lower() is computed character by character.                         *)
(***************************************************************************)
UpperCase == <<"A", "B", "C", "D", "E", "F", "G", "H", "I", "J", "K", "L", "M",
               "N", "O", "P", "Q", "R", "S", "T", "U", "V", "W", "X", "Y", "Z">>

LowerCase == <<"a", "b", "c", "d", "e", "f", "g", "h", "i", "j", "k", "l", "m",
               "n", "o", "p", "q", "r", "s", "t", "u", "v", "w", "x", "y", "z">>

\* str.lower()
Lower(s) ==
    [k \in 1..Len(s) |->
        IF \E j \in 1..26 : UpperCase[j] = s[k]
        THEN LowerCase[CHOOSE j \in 1..26 : UpperCase[j] = s[k]]
        ELSE s[k]]

\* CodeArtifact._repo_formats
RepoFormats ==
    <<<<"c", "a", "r", "g", "o">>, <<"g", "e", "n", "e", "r", "i", "c">>,
      <<"m", "a", "v", "e", "n">>, <<"n", "p", "m">>, <<"n", "u", "g", "e", "t">>,
      <<"p", "y", "p", "i">>, <<"r", "u", "b", "y">>, <<"s", "w", "i", "f", "t">>>>

\* x in list
In(x, list) == \E k \in 1..Len(list) : list[k] = x

\* the fmt arguments the callers pass
Formats ==
    {<<"p", "y", "p", "i">>, <<"P", "y", "P", "I">>, <<"N", "P", "M">>, <<"s", "w", "i", "f", "t">>,
     <<"i", "n", "v", "a", "l", "i", "d", "f", "m", "t">>, <<"p", "i", "p">>, <<>>}

\* the github_key arguments the callers pass
GithubKeys == {None, Some(""), Some("CODEARTIFACT_TOKEN")}

\* the value the service's response holds under the key the method reads, if any
Responses == {None, Some("FAKE_VALUE")}

\* the versions list_package_versions answers with
Versions == {"1.0.0", "1.1.0"}

\* fmt not in self._repo_formats, after fmt = fmt.lower()
FormatOkAny(fmt) == TRUE

FormatOk(fmt) == In(Lower(fmt), RepoFormats)

\* the write to the file GITHUB_OUTPUT names
WriteKeyAlways(file, github_key, value) ==
    AppendTo(file, <<Str(github_key) \o "=" \o Str(value)>>)

WriteKey(file, github_key, value) ==
    IF TruthyStr(github_key) /\ TruthyStr(env.GITHUB_OUTPUT)
    THEN AppendTo(file, <<github_key[1] \o "=" \o Str(value)>>)
    ELSE file

\* the except clause of get_auth_token and get_endpoint
OnClientError(what) == Returns(Dict([error |-> "ClientError"]))

\* get_auth_token(github_key) is called
CallGetAuthToken ==
    /\ calls = 0
    /\ \E github_key \in GithubKeys :
          Enter([name |-> "get_auth_token", at |-> "request", args |-> [github_key |-> github_key]])

\* the try block and its except clause
GetAuthTokenRequest ==
    /\ op.name = "get_auth_token" /\ op.at = "request"
    /\ \E outcome \in {"ok", "ClientError"}, token \in Responses :
          /\ outcome = "ClientError" => token = None
          /\ remote' = Append(remote, ClientCall("get_authorization_token", None, outcome))
          /\ IF outcome = "ok"
             THEN /\ gh_output_file' = WriteKey(gh_output_file, op.args.github_key, token)
                  /\ stdout' = stdout
                  /\ Finish(Returns(Dict([token |-> token])))
             ELSE /\ gh_output_file' = gh_output_file
                  /\ stdout' = Append(stdout, <<"Error fetching auth token">>)
                  /\ Finish(OnClientError("token"))
    /\ UNCHANGED Estimator

GetAuthTokenCall == CallGetAuthToken \/ GetAuthTokenRequest

\* get_endpoint(repo_name, fmt, github_key) is called: the format is checked first
CallGetEndpoint ==
    /\ calls = 0
    /\ \E fmt \in Formats, github_key \in GithubKeys :
          Enter([name |-> "get_endpoint", at |-> "check",
                 args |-> [fmt |-> fmt, github_key |-> github_key]])

GetEndpointCheck ==
    /\ op.name = "get_endpoint" /\ op.at = "check"
    /\ IF FormatOk(op.args.fmt)
       THEN op' = [op EXCEPT !.at = "request"] /\ UNCHANGED result
       ELSE Finish(Raises("ValueError", <<Lower(op.args.fmt)>>))
    /\ UNCHANGED <<remote, stdout, gh_output_file, Estimator>>

GetEndpointRequest ==
    /\ op.name = "get_endpoint" /\ op.at = "request"
    /\ \E outcome \in {"ok", "ClientError"}, endpoint \in Responses :
          /\ outcome = "ClientError" => endpoint = None
          /\ remote' = Append(remote, ClientCall("get_repository_endpoint",
                                                 Lower(op.args.fmt), outcome))
          /\ IF outcome = "ok"
             THEN /\ gh_output_file' = WriteKey(gh_output_file, op.args.github_key, endpoint)
                  /\ stdout' = stdout
                  /\ Finish(Returns(Dict([endpoint |-> endpoint])))
             ELSE /\ gh_output_file' = gh_output_file
                  /\ stdout' = Append(stdout, <<"Error fetching endpoint for">>)
                  /\ Finish(OnClientError("endpoint"))
    /\ UNCHANGED Estimator

GetEndpointCall == CallGetEndpoint \/ GetEndpointCheck \/ GetEndpointRequest

\* delete_package_versions(pkg_name, repo_name, fmt) is called: the format is checked first
CallDeletePackageVersions ==
    /\ calls = 0
    /\ \E fmt \in Formats :
          Enter([name |-> "delete_package_versions", at |-> "check", args |-> [fmt |-> fmt],
                 todo |-> <<>>, failed |-> <<>>, versions |-> <<>>])

DeletePackageVersionsCheck ==
    /\ op.name = "delete_package_versions" /\ op.at = "check"
    /\ IF FormatOk(op.args.fmt)
       THEN op' = [op EXCEPT !.at = "list"] /\ UNCHANGED result
       ELSE Finish(Raises("ValueError", <<Lower(op.args.fmt)>>))
    /\ UNCHANGED <<remote, stdout, gh_output_file, Estimator>>

\* client.list_package_versions and what follows it up to the loop
DeletePackageVersionsList ==
    /\ op.name = "delete_package_versions" /\ op.at = "list"
    /\ \E outcome \in {"ok", "ClientError"}, versions \in ListsOf(Versions, MaxEntries) :
          /\ outcome = "ClientError" => versions = <<>>
          /\ remote' = Append(remote, ClientCall("list_package_versions",
                                                 Lower(op.args.fmt), outcome))
          /\ IF outcome = "ClientError"
             THEN /\ stdout' = Append(stdout, <<"Error listing package versions for">>)
                  /\ Finish(Returns(Bool(FALSE)))
             ELSE IF ~Truthy(versions)
                  THEN /\ stdout' = Append(stdout, <<"No existing versions found for package">>)
                       /\ Finish(Returns(Bool(TRUE)))
                  ELSE /\ stdout' = stdout
                       /\ result' = result
                       /\ op' = [op EXCEPT !.at = "delete", !.versions = versions,
                                           !.todo = versions]
    /\ UNCHANGED <<gh_output_file, Estimator>>

\* the body of the loop over versions, for the outcome of the version's deletion
DeleteOneStopsAtFailure(o, version, outcome) ==
    IF outcome = "ok" THEN [o EXCEPT !.todo = Tail(@)]
    ELSE [o EXCEPT !.todo = <<>>, !.failed = Append(@, version)]

DeleteOne(o, version, outcome) ==
    IF outcome = "ok" THEN [o EXCEPT !.todo = Tail(@)]
    ELSE [o EXCEPT !.todo = Tail(@), !.failed = Append(@, version)]

\* one iteration of the loop over versions
DeletePackageVersionsDelete ==
    /\ op.name = "delete_package_versions" /\ op.at = "delete"
    /\ op.todo # <<>>
    /\ \E outcome \in {"ok", "ClientError"}, version \in {Head(op.todo)} :
          /\ remote' = Append(remote, ClientCall("delete_package_versions", version, outcome))
          /\ stdout' = Append(stdout, IF outcome = "ok" THEN <<"Deleted version", version>>
                                      ELSE <<"Error deleting version", version>>)
          /\ op' = DeleteOne(op, version, outcome)
    /\ UNCHANGED <<result, gh_output_file, Estimator>>

\* the value returned after the loop
DeleteVerdictAnyDeleted(failed, versions) == Len(failed) < Len(versions)

DeleteVerdict(failed, versions) == ~Truthy(failed)

\* the statements after the loop
DeletePackageVersionsReturn ==
    /\ op.name = "delete_package_versions" /\ op.at = "delete"
    /\ op.todo = <<>>
    /\ stdout' = IF Truthy(op.failed)
                 THEN Append(stdout, <<"Failed to delete versions", op.failed>>)
                 ELSE stdout
    /\ Finish(Returns(Bool(DeleteVerdict(op.failed, op.versions))))
    /\ UNCHANGED <<remote, gh_output_file, Estimator>>

DeletePackageVersionsCall ==
    \/ CallDeletePackageVersions
    \/ DeletePackageVersionsCheck
    \/ DeletePackageVersionsList
    \/ DeletePackageVersionsDelete
    \/ DeletePackageVersionsReturn

(***************************************************************************)
(* SSM.update_parameter                                                    *)
(***************************************************************************)
\* SSM._parameter_types
ParameterTypes == <<"String", "StringList", "SecureString">>

\* the type_ arguments the callers pass
Types == {"String", "StringList", "SecureString", "InvalidType", "string", ""}

\* type_ in self._parameter_types
TypeOkAny(type_) == TRUE

TypeOk(type_) == In(type_, ParameterTypes)

\* update_parameter(param_name, value, type_, overwrite) is called: the type is checked first
CallUpdateParameter ==
    /\ calls = 0
    /\ \E type_ \in Types :
          Enter([name |-> "update_parameter", at |-> "check", args |-> [type_ |-> type_]])

UpdateParameterCheck ==
    /\ op.name = "update_parameter" /\ op.at = "check"
    /\ IF TypeOk(op.args.type_)
       THEN op' = [op EXCEPT !.at = "put"] /\ UNCHANGED result
       ELSE Finish(Raises("ValueError", <<op.args.type_>>))
    /\ UNCHANGED <<remote, stdout, gh_output_file, Estimator>>

\* the try block and its except clause
UpdateParameterPut ==
    /\ op.name = "update_parameter" /\ op.at = "put"
    /\ \E outcome \in {"ok", "ClientError"} :
          /\ remote' = Append(remote, ClientCall("put_parameter", op.args.type_, outcome))
          /\ stdout' = Append(stdout, IF outcome = "ok" THEN <<"Updated parameter">>
                                      ELSE <<"Failed to update parameter">>)
          /\ Finish(Returns(Bool(outcome = "ok")))
    /\ UNCHANGED <<gh_output_file, Estimator>>

UpdateParameterCall == CallUpdateParameter \/ UpdateParameterCheck \/ UpdateParameterPut

(***************************************************************************)
(* The wrappers in use: a pipeline step calls a method                      *)
(***************************************************************************)
InitAws ==
    /\ self = NewInstance("S3", "eu-west-1", "STANDARD", None, None, None, FALSE, FALSE)
    /\ env \in {e \in Envs : e.GITHUB_STEP_SUMMARY = None}
    /\ gh_output_file \in {NoFile, Earlier}
    /\ gh_summary_file = NoFile
    /\ pc = "idle"
    /\ trace = <<>>
    /\ ret = NotCalled
    /\ calls = 0
    /\ before = [self |-> self, out |-> gh_output_file, summ |-> NoFile]
    /\ twin = NoRun(self)
    /\ loop = LoopEntry(0)
    /\ priced = None
    /\ AwsIdle

NextAws ==
    \/ DownloadFilesCall
    \/ UploadFilesCall
    \/ GetAuthTokenCall
    \/ GetEndpointCall
    \/ DeletePackageVersionsCall
    \/ UpdateParameterCall

SpecAws == InitAws /\ [][NextAws]_vars

(***************************************************************************)
(* Properties of the pricing loop (SpecCost)                               *)
(***************************************************************************)
Max(a, b) == IF a >= b THEN a ELSE b

\* the graduated reference, in thousandths of a dollar: 0.023 per GB up to 50 TB,
\* 0.022 per GB from there up to 500 TB, 0.021 per GB above
Graduated(c) ==
    23 * Min(c, 50 * 1024)
    + 22 * Max(0, Min(c, 500 * 1024) - 50 * 1024)
    + 21 * Max(0, c - 500 * 1024)

PricingDone == LoopDone(loop, Pricing["STANDARD"])

\* C1: for every capacity, the cost the tiered loop ends with is the graduated
\* reference; 0 GB costs 0, 50 TB costs 50*1024*0.023, 100 TB costs
\* 50*1024*0.023 + 50*1024*0.022, and 600 TB costs
\* 50*1024*0.023 + 450*1024*0.022 + 100*1024*0.021.
C1_TieredCostIsGraduated ==
    PricingDone =>
        /\ loop.total_cost = Graduated(loop.total_gb)
        /\ loop.total_gb = 0 => loop.total_cost = 0
        /\ loop.total_gb = 50 * 1024 => loop.total_cost = 50 * 1024 * 23
        /\ loop.total_gb = 100 * 1024 => loop.total_cost = 50 * 1024 * 23 + 50 * 1024 * 22
        /\ loop.total_gb = 600 * 1024 =>
              loop.total_cost = 50 * 1024 * 23 + 450 * 1024 * 22 + 100 * 1024 * 21

\* 600 TB has been priced, through all three tiers
C1_Witness ==
    /\ PricingDone
    /\ loop.total_gb = 600 * 1024
    /\ Len(loop.billed) = 3
    /\ loop.total_cost = 13465600

\* the cost just above limit differs from the cost at limit by the added capacity at rate
NoJumpAt(limit, upto, rate, a, b) ==
    (a.total_gb = limit /\ b.total_gb > limit /\ b.total_gb <= upto)
        => b.total_cost - a.total_cost = (b.total_gb - a.total_gb) * rate

\* C2: of any two capacities priced, the larger costs at least as much; the cost
\* above a tier limit continues the cost at the limit at the next tier's rate; and
\* the rates of the table strictly decrease, 0.023 > 0.022 > 0.021.
C2_TieredCostMonotoneContinuous ==
    /\ \A k \in 1..(Len(Pricing["STANDARD"]) - 1) :
          /\ Pricing["STANDARD"][k][2] > Pricing["STANDARD"][k + 1][2]
          /\ Pricing["STANDARD"][k][1] < Pricing["STANDARD"][k + 1][1]
    /\ <<Pricing["STANDARD"][1][2], Pricing["STANDARD"][2][2], Pricing["STANDARD"][3][2]>>
          = <<23, 22, 21>>
    /\ (PricingDone /\ priced # None) =>
          LET a == priced[1]
              b == [total_gb |-> loop.total_gb, total_cost |-> loop.total_cost]
          IN /\ a.total_gb <= b.total_gb => a.total_cost <= b.total_cost
             /\ b.total_gb <= a.total_gb => b.total_cost <= a.total_cost
             /\ NoJumpAt(50 * 1024, 500 * 1024, 22, a, b)
             /\ NoJumpAt(500 * 1024, Inf, 21, a, b)
             /\ NoJumpAt(0, 50 * 1024, 23, a, b)

\* the first tier limit was priced, and then one GB more
C2_Witness ==
    /\ PricingDone
    /\ priced # None
    /\ priced[1].total_gb = 50 * 1024
    /\ loop.total_gb = 50 * 1024 + 1
    /\ loop.total_cost = priced[1].total_cost + 22

(***************************************************************************)
(* Properties of the classifier (SpecClassify)                             *)
(***************************************************************************)
Classified == pc = "idle" /\ trace = <<<<"determine_color_code">>>>

\* C3: the classifier gives exactly one label: none if and only if no threshold was
\* supplied; otherwise green below half the threshold, yellow from half the threshold
\* up to the threshold, red from the threshold on; cost = threshold / 2 is yellow and
\* cost = threshold is red (thresholds are positive; at threshold 0 the two limits
\* coincide and the yellow band is empty).
C3_ClassifierBands ==
    Classified =>
        LET c == self.total_cost
            th == self.threshold
            label == self.color_code
        IN /\ (th = None) <=> (label = None)
           /\ th # None =>
                 /\ label \in {Some("green"), Some("yellow"), Some("red")}
                 /\ 2 * c < th[1] => label = Some("green")
                 /\ (th[1] <= 2 * c /\ c < th[1]) => label = Some("yellow")
                 /\ c >= th[1] => label = Some("red")
                 /\ (th[1] > 0 /\ 2 * c = th[1]) => label = Some("yellow")
                 /\ c = th[1] => label = Some("red")

\* a cost of exactly half the threshold has been classified, by CodeArtifact
C3_Witness ==
    /\ Classified
    /\ self.cls = "CodeArtifact"
    /\ self.threshold = Some(6)
    /\ self.total_cost = 3
    /\ self.color_code = Some("yellow")

(***************************************************************************)
(* Properties of calculate() (Spec)                                        *)
(***************************************************************************)
\* the operations of a trace
Ops(t) == {t[k][1] : k \in 1..Len(t)}

\* the operations that touch the file system
FileAccessOps == {"exists", "rglob", "is_file", "stat", "open"}

\* the steps that follow the collection
LaterSteps == {"calculate_total_gb", "calculate_cost", "determine_color_code",
               "write_github_output", "write_github_summary"}

\* the last calculate() has ended, and its outcome is there to see
Ended == pc = "idle" /\ ret.kind # "none"

Returned == Ended /\ ret.kind = "return"

SinksUntouched == gh_output_file = before.out /\ gh_summary_file = before.summ

RegionOk == self.region = "eu-west-1"

StorageTypeOk == self.cls = "S3" => self.storage_type = "STANDARD"

MissingFolder == self.folder # None /\ self.folder[1] # "" /\ Kind[self.folder[1]] = "absent"

\* C4: a call with a region other than eu-west-1 never leaves region validation: it
\* raises with no file access and both sinks as they were; in S3 an unsupported
\* storage type raises likewise, before any file access and any sink write; and
\* region validation comes before storage-type validation.
C4_ValidationBeforeIO ==
    /\ ~RegionOk =>
          /\ pc \in {"idle", "validate_region"}
          /\ Ops(trace) \cap FileAccessOps = {}
          /\ SinksUntouched
          /\ Ended => (ret.kind = "raise" /\ ret.exc = "ValueError"
                       /\ trace = <<<<"validate_region">>>>)
    /\ (self.cls = "S3" /\ RegionOk /\ ~StorageTypeOk) =>
          /\ pc \in {"idle", "validate_region", "validate_storage_type"}
          /\ Ops(trace) \cap FileAccessOps = {}
          /\ SinksUntouched
          /\ Ended => (ret.kind = "raise" /\ ret.exc = "ValueError"
                       /\ trace = <<<<"validate_region">>, <<"validate_storage_type">>>>)
    /\ \A k \in 1..Len(trace) :
          trace[k] = <<"validate_storage_type">> =>
              \E j \in 1..(k - 1) : trace[j] = <<"validate_region">>
    /\ \A k \in 1..Len(trace) :
          trace[k][1] \in FileAccessOps =>
              \E j \in 1..(k - 1) : trace[j] = <<"validate_region">>

\* an S3 call with a bad region and a bad storage type, an existing folder, both
\* flags set and both destinations configured, has raised at region validation
C4_Witness ==
    /\ Ended
    /\ self.cls = "S3"
    /\ self.region = "us-east-1"
    /\ self.storage_type = "GLACIER"
    /\ self.folder = Some("d")
    /\ self.github_output /\ self.github_summary
    /\ env.GITHUB_OUTPUT = Some("github_output.txt")
    /\ env.GITHUB_STEP_SUMMARY = Some("github_summary.md")
    /\ ret.exc = "ValueError"
    /\ trace = <<<<"validate_region">>>>

\* C5: when the inputs are valid and the folder given does not exist, the call ends
\* in collection with FileNotFoundError: no entry of the explicit list is examined,
\* no aggregation, pricing, classification or sink step runs, and both sinks are as
\* they were.
C5_MissingFolderAborts ==
    (RegionOk /\ StorageTypeOk /\ MissingFolder) =>
        /\ pc \in {"idle", "validate_region", "validate_storage_type", "gather_files"}
        /\ Ops(trace) \cap (LaterSteps \cup {"rglob", "is_file", "getattr_is_file", "stat", "open"}) = {}
        /\ SinksUntouched
        /\ Ended => /\ ret.kind = "raise"
                    /\ ret.exc = "FileNotFoundError"
                    /\ trace[Len(trace)] = <<"exists", self.folder[1]>>
                    /\ trace[Len(trace) - 1] = <<"gather_files">>

\* a call with a missing folder and an explicit list, both flags set and both
\* destinations configured, has raised FileNotFoundError
C5_Witness ==
    /\ Ended
    /\ self.folder = Some("gone")
    /\ self.files = Some(<<P("d/a")>>)
    /\ self.github_output /\ self.github_summary
    /\ env.GITHUB_OUTPUT = Some("github_output.txt")
    /\ env.GITHUB_STEP_SUMMARY = Some("github_summary.md")
    /\ ret.exc = "FileNotFoundError"

\* the number of entries of fs that name p
Count(fs, p) == Cardinality({k \in 1..Len(fs) : fs[k].p = p})

\* what the walk returns, and what the explicit list holds
Walked == IF self.folder # None /\ self.folder[1] # "" THEN Rglob(self.folder[1]) ELSE <<>>

Listed == IF self.files # None THEN self.files[1] ELSE <<>>

RECURSIVE SizeOfAll(_, _)
\* the sizes of the paths ps, each as many times as fs names it
SizeOfAll(fs, ps) ==
    IF ps = {} THEN 0
    ELSE LET p == CHOOSE q \in ps : TRUE
         IN Count(fs, p) * StSize[p] + SizeOfAll(fs, ps \ {p})

\* the collection of the current call has completed
Gathered == pc \in (LaterSteps \cup {"return"}) \/ Returned

\* the aggregation of the current call has completed
Aggregated == pc \in ((LaterSteps \ {"calculate_total_gb"}) \cup {"return"}) \/ Returned

\* C6: the inventory is the regular files of the walk followed by the regular files
\* of the explicit list, every occurrence kept: a regular file named by both sources
\* is there once per source, directories and missing paths are not there, and
\* total_gb counts each occurrence's size.
C6_InventoryKeepsDuplicates ==
    /\ Gathered =>
          /\ self.all_files = SelectSeq(Walked, IsFile) \o SelectSeq(Listed, IsFile)
          /\ \A p \in Paths :
                Count(self.all_files, p) =
                    IF Kind[p] = "file" THEN Count(Walked, p) + Count(Listed, p) ELSE 0
    /\ Aggregated =>
          /\ self.total_gb = SizeOfAll(Walked, {p \in Paths : Kind[p] = "file"})
                             + SizeOfAll(Listed, {p \in Paths : Kind[p] = "file"})
          /\ (self.folder = Some("d") /\ self.files = Some(<<P("d"), P("d/a")>>)) =>
                (self.all_files = <<P("d/a"), P("d/sub/b"), P("d/a")>>
                 /\ self.total_gb = 1 + 51200 + 1)
    /\ Returned =>
          ret.value[1].total_cost =
              IF self.cls = "S3" THEN Graduated(ret.value[1].total_gb)
              ELSE 50 * ret.value[1].total_gb

\* folder d and an explicit list naming d and d/a: d/a is billed twice
C6_Witness ==
    /\ Returned
    /\ self.cls = "S3"
    /\ self.folder = Some("d")
    /\ self.files = Some(<<P("d"), P("d/a")>>)
    /\ ret.value[1].total_gb = 51202
    /\ ret.value[1].total_cost = 50 * 1024 * 23 + 2 * 22

\* the entry at which the comprehension of _gather_files raised
RaisedAt == trace[Len(trace)][2]

\* C7: an entry of the explicit list that names no existing regular file is dropped
\* silently: calculate() raises no error at such an entry, and the entry adds nothing
\* to the inventory or to total_gb.
C7_NonFileEntriesDropped ==
    /\ (Ended /\ ret.kind = "raise" /\ ret.exc = "AttributeError") => Kind[RaisedAt] = "file"
    /\ Gathered => \A k \in 1..Len(self.all_files) : Kind[self.all_files[k].p] = "file"
    /\ Aggregated => self.total_gb = SizeOfAll(self.all_files, {p \in Paths : Kind[p] = "file"})

\* C9: a sink whose destination variable is unset is left as it was (no file is
\* created) and its step raises nothing; each sink is written if and only if its own
\* flag is true and its own destination is configured, whatever the other flag and
\* the other destination are.
C9_SinksIndependentNoOps ==
    /\ env.GITHUB_OUTPUT = None => gh_output_file = before.out
    /\ env.GITHUB_STEP_SUMMARY = None => gh_summary_file = before.summ
    /\ gh_output_file # before.out =>
          (self.github_output /\ env.GITHUB_OUTPUT \notin {None, Some("")})
    /\ gh_summary_file # before.summ =>
          (self.github_summary /\ env.GITHUB_STEP_SUMMARY \notin {None, Some("")})
    /\ Returned =>
          /\ (self.github_output /\ env.GITHUB_OUTPUT \notin {None, Some("")})
                => (gh_output_file.exists /\ gh_output_file # before.out)
          /\ (self.github_summary /\ env.GITHUB_STEP_SUMMARY \notin {None, Some("")})
                => (gh_summary_file.exists /\ gh_summary_file # before.summ)
    /\ (Ended /\ ret.kind = "raise") =>
          Ops(trace) \cap {"write_github_output", "write_github_summary"} = {}
    /\ pc = "return" =>
          {"write_github_output", "write_github_summary"} \subseteq Ops(trace)

\* both flags set, GITHUB_OUTPUT unset and GITHUB_STEP_SUMMARY configured: no output
\* file was created, and the summary was written
C9_Witness ==
    /\ Returned
    /\ self.github_output /\ self.github_summary
    /\ env.GITHUB_OUTPUT = None
    /\ env.GITHUB_STEP_SUMMARY = Some("github_summary.md")
    /\ before.out = NoFile /\ gh_output_file = NoFile
    /\ before.summ = NoFile /\ gh_summary_file.exists
    /\ Len(gh_summary_file.lines) = 4

IsPrefix(a, b) == Len(a) <= Len(b) /\ SubSeq(b, 1, Len(a)) = a

\* a sink file keeps what it held
Kept(file, file2) == IsPrefix(file.lines, file2.lines) /\ (file.exists => file2.exists)

\* C10: no step ever removes or changes what a sink holds; a call that returns, with
\* the flag set and the destination configured, has appended to the output sink
\* exactly the three lines total_gb, estimate_cost, color_code in that order, and to
\* the summary sink the heading, the two lines of the table header and one data row;
\* otherwise it has appended nothing.
C10_SinksAppendOnly ==
    [][/\ Kept(gh_output_file, gh_output_file')
       /\ Kept(gh_summary_file, gh_summary_file')
       /\ Returned' =>
             LET v == ret'.value[1]
                 label == IF self'.cls = "S3" THEN "S3" ELSE "CodeArtifact"
                 color == IF v.color_code = None THEN "None" ELSE v.color_code[1]
             IN /\ gh_output_file'.lines = before'.out.lines \o
                      (IF self'.github_output /\ env'.GITHUB_OUTPUT \notin {None, Some("")}
                       THEN <<"total_gb=" \o FmtGb(v.total_gb),
                              "estimate_cost=" \o FmtCost(v.total_cost),
                              "color_code=" \o color>>
                       ELSE <<>>)
                /\ gh_summary_file'.lines = before'.summ.lines \o
                      (IF self'.github_summary /\ env'.GITHUB_STEP_SUMMARY \notin {None, Some("")}
                       THEN <<"### " \o label \o " Cost Estimate",
                              "| Resource | Storage Size (GB) | Estimated Monthly Cost |",
                              "|----------|-------------------|------------------------|",
                              "| " \o label \o " | " \o FmtGb(v.total_gb)
                                  \o " | <span style='color:" \o color \o "'>$"
                                  \o FmtCost(v.total_cost) \o "</span> |">>
                       ELSE <<>>)]_vars

\* two calls have returned, each appending to both sinks after what an earlier step
\* of the pipeline had written, with a different color each time
C10_Witness ==
    /\ Returned
    /\ calls = 2
    /\ Len(gh_output_file.lines) = 7
    /\ Len(gh_summary_file.lines) = 9
    /\ gh_output_file.lines[1] = "earlier=1"
    /\ gh_output_file.lines[2] = gh_output_file.lines[5]
    /\ gh_output_file.lines[4] # gh_output_file.lines[7]
    /\ gh_output_file.lines[7] = "color_code=green"

(***************************************************************************)
(* Properties of a reused instance (SpecReuse)                             *)
(***************************************************************************)
\* C8: a call on an instance that has already run calculate(), with success or with
\* failure, ends as the same call on a fresh instance with the same inputs and the
\* same file system ends: the same exception, or the same total_gb, total_cost and
\* color_code, computed from the same inventory.
C8_NoStateAcrossCalls ==
    /\ Ended => ret = Outcome(twin)
    /\ Returned =>
          /\ self.all_files = twin.self.all_files
          /\ self.total_gb = twin.self.total_gb
          /\ self.total_cost = twin.self.total_cost
          /\ self.color_code = twin.self.color_code

\* the second call on an instance returned 0 GB, none of the 51201 GB, the cost and
\* the inventory its first call had left in the fields
C8_Witness ==
    /\ Returned
    /\ calls = 2
    /\ before.self.total_gb = 51201
    /\ before.self.total_cost > 0
    /\ Len(before.self.all_files) = 2
    /\ ret.value[1].total_gb = 0
    /\ ret.value[1].total_cost = 0

(***************************************************************************)
(* Properties of the wrappers (SpecAws)                                    *)
(***************************************************************************)
\* the wrapper method named name has ended
Done(name) == op.name = name /\ op.at = "idle" /\ result.kind # "none"

\* the positions of a list, in order
Positions(list) == [k \in 1..Len(list) |-> k]

\* the argument of each client call of remote whose outcome is in outcomes, in call order
ArgsWith(outcomes) ==
    LET at == SelectSeq(Positions(remote), LAMBDA k : remote[k].outcome \in outcomes)
    IN  [j \in 1..Len(at) |-> remote[at[j]].arg]

\* the keys of the mandatory entries of files whose fetch failed, in list order
FailedMandatory(files) ==
    LET at == SelectSeq(Positions(files),
                        LAMBDA k : /\ remote[k].outcome # "ok"
                                   /\ "mandatory" \in DOMAIN files[k]
                                   /\ files[k].mandatory)
    IN  [j \in 1..Len(at) |-> files[at[j]].key]

\* download_files has ended on a list of entries, download_all being false
ListedDone ==
    /\ Done("download_files")
    /\ ~op.args.download_all
    /\ TruthyList(op.args.files)

\* C11: download_files with download_all false fetches every listed entry, in list
\* order, before it decides: it raises the missing-mandatory error exactly when a
\* mandatory entry's fetch failed, naming those keys and no other; a failed
\* non-mandatory fetch is dropped; the keys fetched are in downloaded_files by then.
C11_DownloadAttemptsAllThenDecides ==
    /\ (op.name = "download_files" /\ op.at = "fetch" /\ op.todo # <<>>) => result.kind = "none"
    /\ ListedDone =>
          LET files == op.args.files[1] IN
          /\ Len(remote) = Len(files)
          /\ \A k \in 1..Len(files) :
                remote[k].call = "download_file" /\ remote[k].arg = files[k].key
          /\ op.downloaded_files = ArgsWith({"ok"})
          /\ IF FailedMandatory(files) # <<>>
             THEN result = Raises("FileNotFoundError", FailedMandatory(files))
             ELSE result = Returns(Dict([missing_mandatory |-> <<>>,
                                         downloaded |-> ArgsWith({"ok"})]))

\* a mandatory entry's fetch failed, a later entry was fetched all the same and is
\* recorded, and the error names the failed one
C11_Witness ==
    /\ ListedDone
    /\ result.kind = "raise"
    /\ Len(remote) = 2
    /\ remote[1].outcome = "ClientError"
    /\ remote[2].outcome = "ok"
    /\ op.downloaded_files = <<remote[2].arg>>
    /\ result.names = <<remote[1].arg>>

\* the entry has a key and a path to transfer
HasKeyAndPath(file_info) ==
    /\ "key" \in DOMAIN file_info /\ file_info.key # None /\ file_info.key[1] # ""
    /\ "path" \in DOMAIN file_info /\ file_info.path # None /\ file_info.path[1] # ""

\* the entry as the failed list records it
AsFailed(file_info) ==
    [key |-> IF "key" \in DOMAIN file_info THEN file_info.key ELSE None,
     path |-> IF "path" \in DOMAIN file_info THEN file_info.path ELSE None]

\* the number of entries among the first k of files that have a key and a path
Transfers(files, k) == Cardinality({j \in 1..k : HasKeyAndPath(files[j])})

\* entry k of files was transferred
Uploaded(files, k) ==
    HasKeyAndPath(files[k]) /\ remote[Transfers(files, k)].outcome = "ok"

\* C12: upload_files partitions its input: every entry ends in exactly one of uploaded
\* (by key) and failed (as {key, path}), in input order within each list, so the two
\* lengths add up to the number of entries; an entry missing key or path is failed with
\* no transfer attempted, and a failure does not stop the later entries.
C12_UploadPartitionsInput ==
    Done("upload_files") =>
        LET files == op.args.files
            up == SelectSeq(Positions(files), LAMBDA k : Uploaded(files, k))
            down == SelectSeq(Positions(files), LAMBDA k : ~Uploaded(files, k))
        IN  /\ result.kind = "return"
            /\ result.value.type = "dict"
            /\ DOMAIN result.value.dict = {"uploaded", "failed"}
            /\ result.value.dict.uploaded = [j \in 1..Len(up) |-> files[up[j]].key]
            /\ result.value.dict.failed = [j \in 1..Len(down) |-> AsFailed(files[down[j]])]
            /\ Len(result.value.dict.uploaded) + Len(result.value.dict.failed) = Len(files)
            /\ Len(remote) = Transfers(files, Len(files))
            /\ \A k \in 1..Len(files) :
                  HasKeyAndPath(files[k]) =>
                      /\ remote[Transfers(files, k)].call = "upload_file"
                      /\ remote[Transfers(files, k)].arg = files[k].key

\* an entry without a key was failed with no transfer, and the entry after it was uploaded
C12_Witness ==
    /\ Done("upload_files")
    /\ Len(op.args.files) = 2
    /\ "key" \notin DOMAIN op.args.files[1]
    /\ Len(remote) = 1
    /\ result.value.dict.uploaded = <<op.args.files[2].key>>
    /\ Len(result.value.dict.failed) = 1

\* delete_package_versions has ended by returning (its format was accepted)
DeleteDone == Done("delete_package_versions") /\ result.kind = "return"

\* C13: delete_package_versions lists the versions once, then issues exactly one delete
\* for each listed version whatever the earlier ones did, and returns true exactly when
\* every delete succeeded; with no version listed it returns true without a delete; if
\* the listing fails it returns false without a delete.
C13_DeleteEachVersionOnce ==
    DeleteDone =>
        /\ Len(remote) >= 1
        /\ remote[1].call = "list_package_versions"
        /\ \A k \in 2..Len(remote) : remote[k].call = "delete_package_versions"
        /\ result.value.type = "bool"
        /\ IF remote[1].outcome # "ok"
           THEN Len(remote) = 1 /\ result.value.bool = FALSE
           ELSE /\ Len(remote) = 1 + Len(op.versions)
                /\ \A k \in 1..Len(op.versions) : remote[k + 1].arg = op.versions[k]
                /\ result.value.bool = (\A k \in 2..Len(remote) : remote[k].outcome = "ok")

\* two versions were listed, the first delete failed and the second was issued and succeeded
C13_Witness ==
    /\ DeleteDone
    /\ Len(op.versions) = 2
    /\ Len(remote) = 3
    /\ remote[2].outcome = "ClientError"
    /\ remote[3].outcome = "ok"
    /\ result.value.bool = FALSE

\* a batch operation has ended by returning
BatchDone == DeleteDone \/ Done("upload_files")

\* every item of the batch succeeded
EveryItemSucceeded ==
    IF op.name = "upload_files"
    THEN \A k \in 1..Len(op.args.files) : Uploaded(op.args.files, k)
    ELSE \A k \in 1..Len(remote) : remote[k].outcome = "ok"

\* the returned value holds an aggregate flag: it is a bool, or a dict with an entry
\* besides the per-item lists
HasFlag(value) ==
    \/ value.type = "bool"
    \/ value.type = "dict" /\ DOMAIN value.dict \ {"uploaded", "failed"} # {}

\* the messages printed for the deletes, one per version, in order
DeleteMessages ==
    [k \in 1..Len(op.versions) |->
        IF remote[k + 1].outcome = "ok" THEN <<"Deleted version", op.versions[k]>>
        ELSE <<"Error deleting version", op.versions[k]>>]

\* the per-item outcomes are reported: returned in lists that cover the input, or
\* printed one message per item
PerItemReported ==
    IF op.name = "upload_files"
    THEN /\ result.value.type = "dict"
         /\ {"uploaded", "failed"} \subseteq DOMAIN result.value.dict
         /\ Len(result.value.dict.uploaded) + Len(result.value.dict.failed)
               = Len(op.args.files)
    ELSE remote[1].outcome = "ok" =>
            SubSeq(stdout, 1, Len(op.versions)) = DeleteMessages

\* C14 as stated: on a partial failure, each batch operation (delete_package_versions,
\* upload_files) reports per-item outcomes and an aggregate success flag that is true
\* only if every item succeeded.
C14_BatchReportsItemsAndFlag ==
    (BatchDone /\ ~EveryItemSucceeded) =>
        /\ PerItemReported
        /\ HasFlag(result.value)
        /\ (result.value.type = "bool" /\ result.value.bool) => EveryItemSucceeded

\* C14 as amended: delete_package_versions returns an aggregate flag, true exactly when
\* the listing and every delete succeeded, and reports the per-item outcomes only as
\* printed messages, one per version; upload_files returns the per-item outcomes as its
\* two lists and no flag: every item succeeded exactly when its failed list is empty.
C14_BatchReportsItemsOrFlag ==
    /\ DeleteDone =>
          /\ result.value.type = "bool"
          /\ result.value.bool = EveryItemSucceeded
          /\ PerItemReported
    /\ Done("upload_files") =>
          /\ PerItemReported
          /\ ~HasFlag(result.value)
          /\ (result.value.dict.failed = <<>>) = EveryItemSucceeded

\* an upload in which one transfer failed at the service and another succeeded
C14_Witness ==
    /\ Done("upload_files")
    /\ \E k \in 1..Len(remote) : remote[k].outcome = "ClientError"
    /\ result.value.dict.uploaded # <<>>
    /\ result.value.dict.failed # <<>>

\* the package formats the claim names
NamedFormats ==
    {<<"c", "a", "r", "g", "o">>, <<"g", "e", "n", "e", "r", "i", "c">>,
     <<"m", "a", "v", "e", "n">>, <<"n", "p", "m">>, <<"n", "u", "g", "e", "t">>,
     <<"p", "y", "p", "i">>, <<"r", "u", "b", "y">>, <<"s", "w", "i", "f", "t">>}

\* a method that takes a package format is in progress or has ended
TakesFormat == op.name \in {"get_endpoint", "delete_package_versions"}

\* C15: get_endpoint and delete_package_versions reject a format that, lower-cased, is
\* outside {cargo, generic, maven, npm, nuget, pypi, ruby, swift}: they raise before any
\* remote call and before anything is written to the CI output channel, and never turn
\* the error into an error dict or a false return; a format inside the set is not rejected.
C15_FormatRejectedBeforeAnyCall ==
    TakesFormat =>
        IF Lower(op.args.fmt) \in NamedFormats
        THEN result.kind # "raise"
        ELSE /\ remote = <<>>
             /\ gh_output_file = before.out
             /\ stdout = <<>>
             /\ result.kind # "return"
             /\ Done(op.name) => result.kind = "raise" /\ result.exc = "ValueError"

\* get_endpoint has rejected a format while a key was supplied and the channel configured
C15_Witness ==
    /\ Done("get_endpoint")
    /\ Lower(op.args.fmt) \notin NamedFormats
    /\ result.kind = "raise"
    /\ TruthyStr(op.args.github_key)
    /\ TruthyStr(env.GITHUB_OUTPUT)

\* the parameter types the claim names
NamedTypes == {"String", "StringList", "SecureString"}

\* C16: update_parameter rejects a type outside {String, StringList, SecureString} by
\* raising with no remote call made; for an allowed type it calls the remote put
\* operation exactly once and returns true if the call succeeded and false if it failed
\* with a remote-service error, which is never raised to the caller.
C16_UpdateParameterChecksThenPutsOnce ==
    op.name = "update_parameter" =>
        IF op.args.type_ \in NamedTypes
        THEN /\ Len(remote) <= 1
             /\ result.kind # "raise"
             /\ Done("update_parameter") =>
                   /\ Len(remote) = 1
                   /\ remote[1].call = "put_parameter"
                   /\ result = Returns(Bool(remote[1].outcome = "ok"))
        ELSE /\ remote = <<>>
             /\ result.kind # "return"
             /\ Done("update_parameter") => result.kind = "raise" /\ result.exc = "ValueError"

\* the put of an allowed type failed at the service, and update_parameter returned false
C16_Witness ==
    /\ Done("update_parameter")
    /\ op.args.type_ = "SecureString"
    /\ remote = <<ClientCall("put_parameter", "SecureString", "ClientError")>>
    /\ result = Returns(Bool(FALSE))

\* get_auth_token or get_endpoint has made its remote call and ended
AskedDone ==
    /\ op.name \in {"get_auth_token", "get_endpoint"}
    /\ op.at = "idle"
    /\ remote # <<>>

\* the entry of the returned dict that holds the value asked for
Asked == IF op.name = "get_auth_token" THEN "token" ELSE "endpoint"

\* C17: get_auth_token and get_endpoint never propagate a remote-call failure: on
\* failure they return a dict holding only an error entry and append nothing to the CI
\* output channel; on success they return the token or endpoint and append exactly the
\* line '<github_key>=<value>' if and only if a github_key was supplied and the
\* GITHUB_OUTPUT destination is configured.
C17_TokenAndEndpointCatchAndReport ==
    AskedDone =>
        /\ Len(remote) = 1
        /\ result.kind = "return"
        /\ result.value.type = "dict"
        /\ IF remote[1].outcome # "ok"
           THEN /\ DOMAIN result.value.dict = {"error"}
                /\ gh_output_file = before.out
           ELSE /\ DOMAIN result.value.dict = {Asked}
                /\ IF /\ op.args.github_key # None /\ op.args.github_key[1] # ""
                      /\ env.GITHUB_OUTPUT # None /\ env.GITHUB_OUTPUT[1] # ""
                   THEN /\ gh_output_file.exists
                        /\ gh_output_file.lines =
                              before.out.lines \o
                              <<op.args.github_key[1] \o "=" \o Str(result.value.dict[Asked])>>
                   ELSE gh_output_file = before.out

\* get_auth_token has appended its line to a channel that already held lines
C17_Witness ==
    /\ AskedDone
    /\ op.name = "get_auth_token"
    /\ before.out = Earlier
    /\ result = Returns(Dict([token |-> Some("FAKE_VALUE")]))
    /\ gh_output_file.lines = Earlier.lines \o <<"CODEARTIFACT_TOKEN=FAKE_VALUE">>

(***************************************************************************)
(* The pricing loop, tier by tier (SpecCost)                               *)
(***************************************************************************)
\* the width of tier k of the table: its boundary minus the one before
Width(tiers, k) ==
    IF tiers[k][1] = Inf THEN Inf
    ELSE tiers[k][1] - (IF k = 1 THEN 0 ELSE tiers[k - 1][1])

\* the sum of the first k spans billed
RECURSIVE Billed(_, _)
Billed(spans, k) == IF k = 0 THEN 0 ELSE Billed(spans, k - 1) + spans[k]

\* the cost of the first k spans billed, each at its tier's rate
RECURSIVE CostOf(_, _, _)
CostOf(spans, tiers, k) ==
    IF k = 0 THEN 0 ELSE CostOf(spans, tiers, k - 1) + spans[k] * tiers[k][2]

\* C18: in the tiered pricing loop every tier's billable span is non-negative and at
\* most the tier's width, the remaining capacity never becomes negative, tiers are
\* consumed in table order, and when the loop ends the remaining capacity is 0 and the
\* spans billed sum to the total capacity, each at its own tier's rate; the loop stops
\* at the first tier after which nothing remains.
C18_TierSpansCoverCapacityOnce ==
    LET tiers == Pricing["STANDARD"]
        n == Len(loop.billed)
    IN  /\ n = loop.i - 1
        /\ n <= Len(tiers)
        /\ loop.previous_limit = (IF n = 0 THEN 0 ELSE tiers[n][1])
        /\ \A k \in 1..n : 0 <= loop.billed[k] /\ loop.billed[k] <= Width(tiers, k)
        /\ loop.remaining_gb >= 0
        /\ loop.remaining_gb = loop.total_gb - Billed(loop.billed, n)
        /\ loop.total_cost = CostOf(loop.billed, tiers, n)
        /\ \A k \in 1..(n - 1) : Billed(loop.billed, k) < loop.total_gb
        /\ (n >= 1 /\ loop.remaining_gb = 0) => loop.brk
        /\ PricingDone =>
              /\ loop.remaining_gb = 0
              /\ Billed(loop.billed, n) = loop.total_gb

\* 100 TB has been priced: the loop stopped after the second tier, each tier billed 50 TB
C18_Witness ==
    /\ PricingDone
    /\ loop.total_gb = 100 * 1024
    /\ loop.billed = <<50 * 1024, 50 * 1024>>
    /\ loop.i = 3
    /\ loop.remaining_gb = 0

(***************************************************************************)
(* download_files with download_all (SpecAws)                              *)
(***************************************************************************)
\* the keys the pages list, in order
RECURSIVE KeysListed(_)
KeysListed(pages) ==
    IF pages = <<>> THEN <<>>
    ELSE (IF "Contents" \in DOMAIN Head(pages)
          THEN [k \in 1..Len(Head(pages).Contents) |-> Head(pages).Contents[k].Key]
          ELSE <<>>) \o KeysListed(Tail(pages))

\* the arguments of the download_file calls, in call order
Fetches ==
    LET at == SelectSeq(Positions(remote), LAMBDA k : remote[k].call = "download_file")
    IN  [j \in 1..Len(at) |-> remote[at[j]].arg]

\* the keys of the download_file calls that succeeded, in call order
Fetched ==
    LET at == SelectSeq(Positions(remote), LAMBDA k : /\ remote[k].call = "download_file"
                                                      /\ remote[k].outcome = "ok")
    IN  [j \in 1..Len(at) |-> remote[at[j]].arg]

\* C19: with download_all true, download_files ignores files: it attempts every object
\* the bucket lists, never raises the missing-mandatory error even if a key that files
\* marks mandatory is not in the bucket or fails to download, and returns
\* missing_mandatory == []; every normal return of download_files has
\* missing_mandatory == [].
C19_DownloadAllIgnoresFiles ==
    Done("download_files") =>
        /\ result.kind = "return" => result.value.dict.missing_mandatory = <<>>
        /\ op.args.download_all =>
              /\ ~(result.kind = "raise" /\ result.exc = "FileNotFoundError")
              /\ result.kind = "return" =>
                    /\ Fetches = KeysListed(op.bucket)
                    /\ result.value.dict.downloaded = Fetched

\* files marks a key mandatory that the bucket does not list, a listed object failed to
\* download, and download_files returned all the same
C19_Witness ==
    /\ Done("download_files")
    /\ op.args.download_all
    /\ op.args.files = Some(<<[key |-> Some("file-does-not-exist.txt"), mandatory |-> TRUE]>>)
    /\ \E k \in 1..Len(remote) :
          remote[k].call = "download_file" /\ remote[k].outcome = "ClientError"
    /\ result.kind = "return"
    /\ result.value.dict.downloaded # <<>>

(***************************************************************************)
(* Order and content of the sink writes of a run (Spec)                    *)
(***************************************************************************)
\* the steps that compute what the sinks are given
ComputeSteps == {"gather_files", "calculate_total_gb", "calculate_cost", "determine_color_code"}

\* trace event a comes before position k
Earlier2(a, k) == \E j \in 1..(k - 1) : trace[j] = a

\* what a run has appended to a sink file so far
AppendedTo(file, file0) == SubSeq(file.lines, Len(file0.lines) + 1, Len(file.lines))

\* C20: in a calculate run the sinks are written only after the collection, the
\* aggregation, the pricing and the classification of that run have completed, the
\* machine-readable sink before the human-readable one, and the total_gb, cost and color
\* appended are those of the result the same run returns, never those of an earlier run
\* or the defaults.
C20_SinksWrittenLastWithRunValues ==
    /\ \A k \in 1..Len(trace) :
          trace[k][1] \in {"open", "write_github_output", "write_github_summary"} =>
              \A s \in ComputeSteps : Earlier2(<<s>>, k)
    /\ \A k \in 1..Len(trace) :
          trace[k] = <<"write_github_summary">> => Earlier2(<<"write_github_output">>, k)
    /\ \A j, k \in 1..Len(trace) :
          (trace[j] = <<"open", "github_output.txt">> /\ trace[k] = <<"open", "github_summary.md">>)
              => j < k
    /\ (pc # "idle" /\ "open" \notin Ops(trace)) => SinksUntouched
    /\ Returned =>
          LET v == ret.value[1]
              color == IF v.color_code = None THEN "None" ELSE v.color_code[1]
          IN /\ AppendedTo(gh_output_file, before.out) \in
                   {<<>>, <<"total_gb=" \o FmtGb(v.total_gb),
                            "estimate_cost=" \o FmtCost(v.total_cost),
                            "color_code=" \o color>>}
             /\ LET row == AppendedTo(gh_summary_file, before.summ)
                IN row # <<>> =>
                      row[4] = "| " \o Label(self.cls) \o " | " \o FmtGb(v.total_gb)
                               \o " | <span style='color:" \o color \o "'>$"
                               \o FmtCost(v.total_cost) \o "</span> |"

\* a second run has returned a color other than the first run's and other than the
\* default, and both sinks end with that run's values, the output sink opened first
C20_Witness ==
    /\ Returned
    /\ calls = 2
    /\ ret.value[1].color_code = Some("red")
    /\ Len(before.out.lines) = 3
    /\ before.out.lines[3] = "color_code=None"
    /\ AppendedTo(gh_output_file, before.out)[3] = "color_code=red"
    /\ Len(AppendedTo(gh_summary_file, before.summ)) = 4
    /\ \E j, k \in 1..Len(trace) :
          /\ j < k
          /\ trace[j] = <<"open", "github_output.txt">>
          /\ trace[k] = <<"open", "github_summary.md">>

====
